---- MODULE Spec2Model ----
(***************************************************************************)
(* Model of the paros-tools scripts:                                       *)
(*   get-paros-data.py  - builds a Flux query, splits and normalizes the   *)
(*                        response, exports it by file extension           *)
(*   influxdb-setup.py  - interactive prompt writing the credentials file  *)
(*                                                                         *)
(* Python strings are sequences of one-character strings; None is a value  *)
(* distinct from every such sequence.  A generated Flux clause is a        *)
(* sequence of tokens (the pieces of the f-strings that build it).         *)
(***************************************************************************)
EXTENDS Integers, Sequences, FiniteSets, TLC

VARIABLES
    pc,             \* position of the running script / function
    col_name,       \* createFluxFilters: parameter col_name
    in_str,         \* createFluxFilters: parameter in_str
    flux_line,      \* createFluxFilters: returned clause
    df,             \* processInfluxDF: parameter df
    norm_out,       \* processInfluxDF: result and the warning it printed
    args,           \* get-paros-data main: parsed CLI arguments
    creds_present,  \* get-paros-data main: args.creds names an existing file
    start_time,     \* get-paros-data main: start_time (UTC, naive)
    end_time,       \* get-paros-data main: end_time (UTC, naive)
    idb_query,      \* get-paros-data main: query text, a sequence of lines
    sent,           \* queries received by the database
    idb_result,     \* get-paros-data main: response of query_data_frame
    dfs_list,       \* get-paros-data main: tables handed to processInfluxDF
    out_df,         \* get-paros-data main: identifier -> normalized table
    files,          \* output files on disk: name -> content
    exit_code,      \* exit status of the query tool (Running until it ends)
    creds_file,     \* influxdb-setup: content of influx-creds.pickle
    cur,            \* influxdb-setup: cur_influxdb_url/org/token
    entered,        \* influxdb-setup: influxdb_url/org/token
    typed           \* influxdb-setup: last line read by input() for each field

filterVars == <<col_name, in_str, flux_line>>
normVars   == <<df, norm_out>>
queryVars  == <<args, creds_present, start_time, end_time, idb_query, sent,
                idb_result, dfs_list, out_df, files, exit_code>>
setupVars  == <<creds_file, cur, entered, typed>>
vars == <<pc, filterVars, normVars, queryVars, setupVars>>

----------------------------------------------------------------------------
(* Bounds *)

MaxLen == 3         \* longest filter string passed to createFluxFilters
MaxRows == 2        \* most rows of a table given to processInfluxDF alone
MaxTime == 2        \* latest wall-clock time on the command line
MaxTables == 2      \* most Flux tables in one database response

----------------------------------------------------------------------------
(* Python values and string helpers *)

None == <<"None">>

Range(s) == {s[i] : i \in 1..Len(s)}

SeqsUpTo(S, n) == UNION {[1..k -> S] : k \in 0..n}

\* index of the first occurrence of character c in s, 0 when absent
FirstIndex(s, c) ==
    IF c \in Range(s) THEN CHOOSE i \in 1..Len(s) : s[i] = c /\ \A j \in 1..(i-1) : s[j] # c
    ELSE 0

\* str.split(sep, 1): splits at the first separator only
Split_once(s, sep) ==
    LET i == FirstIndex(s, sep) IN
    IF i = 0 THEN <<s>>
    ELSE <<SubSeq(s, 1, i - 1), SubSeq(s, i + 1, Len(s))>>

RECURSIVE Split(_, _)
\* str.split(sep) for a one-character separator
Split(s, sep) ==
    LET i == FirstIndex(s, sep) IN
    IF i = 0 THEN <<s>>
    ELSE <<SubSeq(s, 1, i - 1)>> \o Split(SubSeq(s, i + 1, Len(s)), sep)

RECURSIVE Join(_, _)
\* sep.join(list): the elements of list with sep between consecutive ones
Join(list, sep) ==
    IF Len(list) = 0 THEN <<>>
    ELSE IF Len(list) = 1 THEN <<list[1]>>
    ELSE <<list[1], sep>> \o Join(Tail(list), sep)

----------------------------------------------------------------------------
(* createFluxFilters *)

Tok(kind, col, val) == [kind |-> kind, col |-> col, val |-> val]

FilterOpen  == Tok("|> filter(fn: (r) => ", "", <<>>)
FilterClose == Tok(")", "", <<>>)
OrJoiner    == Tok(" or ", "", <<>>)
\* f'r["{col_name}"] == "{i}"'
Predicate(col, i) == Tok("predicate", col, i)

createFluxFilters(col, s) ==
    IF s = None THEN <<>>
    ELSE
        LET in_list == IF "," \in Range(s) THEN Split(s, ",") ELSE <<s>>
            filter_list == [k \in 1..Len(in_list) |-> Predicate(col, in_list[k])]
            filter_list_str == Join(filter_list, OrJoiner)
        IN  IF Len(filter_list) > 0
            THEN <<FilterOpen>> \o filter_list_str \o <<FilterClose>>
            ELSE <<>>

----------------------------------------------------------------------------
(* Data frames.  A frame is [columns |-> sequence of column names,         *)
(* rows |-> sequence of rows]; a row records the values of its table,      *)
(* _measurement, id and err cells.  A normalized table keeps the source    *)
(* rows, so that the content of an output file can be traced to the        *)
(* tables it came from; its column list says which cells are still there.  *)

Row(t, m, i, e) == [table |-> t, measurement |-> m, id |-> i, err |-> e]

Frame(columns, rows) == [columns |-> columns, rows |-> rows]

\* DataFrame.drop(columns=labels): the remaining columns, in order
Drop(columns, labels) == SelectSeq(columns, LAMBDA c : c \notin labels)

\* rename without inplace=True: the frame is left as it was
Rename_notInPlace(columns, old, new) == columns

\* DataFrame.rename(columns={old: new})
Rename(columns, old, new) ==
    [k \in 1..Len(columns) |-> IF columns[k] = old THEN new ELSE columns[k]]

RECURSIVE Unique(_)
\* Series.unique(): the distinct values in order of first appearance
Unique(s) ==
    IF Len(s) = 0 THEN <<>>
    ELSE LET rest == Unique(SubSeq(s, 1, Len(s) - 1))
         IN  IF s[Len(s)] \in Range(rest) THEN rest ELSE Append(rest, s[Len(s)])

DroppedColumns == {"result", "table", "_measurement", "id"}

\* processInfluxDF(df, output_tz); raised = the call ends in an exception
\* (no first row, or a column to drop that is missing).  The result lists the
\* columns; the cell values of the time column (lines 71-74) are left out.
processInfluxDF(d) ==
    IF Len(d.rows) = 0 \/ ~(DroppedColumns \subseteq Range(d.columns))
    THEN [raised |-> TRUE, id_str |-> <<>>, columns |-> <<>>, rows |-> <<>>,
          warned |-> FALSE]
    ELSE
        LET cur_box == d.rows[1].measurement
            cur_id  == d.rows[1].id
            id_str  == cur_box \o <<"_">> \o cur_id
            c1 == Drop(d.columns, DroppedColumns)
            c2 == IF "baro_time" \in Range(c1) THEN Drop(c1, {"baro_time"}) ELSE c1
            err_list == Unique(<<"e", "r", "r">>)      \* list("err")
            warned == "err" \in Range(c2) /\ Len(err_list) > 1
            c3 == IF "err" \in Range(c2) THEN Drop(c2, {"err"}) ELSE c2
            c4 == Rename(c3, "_time", "time")
        IN  [raised |-> FALSE, id_str |-> id_str, columns |-> c4,
             rows |-> d.rows, warned |-> warned]

----------------------------------------------------------------------------
(* Time zones.  Times are counted in half hours; wall-clock time 0 is      *)
(* 02:00 of the day America/New_York switches to daylight saving time, so  *)
(* wall-clock times below GapEnd (03:00) do not exist in that zone.        *)
(* pytz localize() is called without is_dst, which resolves such a time    *)
(* with the standard-time offset.                                          *)

Zones == {"Etc/UTC", "America/New_York"}

GapEnd == 2         \* 03:00, the first wall-clock time in daylight time
StdOffset == 10     \* UTC - EST, 5 hours
DstOffset == 8      \* UTC - EDT, 4 hours

\* input_tz.localize(t).astimezone(utc).replace(tzinfo=None)
ToUTC(zone, t) ==
    IF zone = "Etc/UTC" THEN t
    ELSE IF t < GapEnd THEN t + StdOffset ELSE t + DstOffset

----------------------------------------------------------------------------
(* Query construction (main, lines 112-140) *)

QLine(kind, a, b, clause) == [kind |-> kind, a |-> a, b |-> b, clause |-> clause]

BuildQuery(bucket, start, stop, box_filters, sensor_filters) ==
    <<QLine("from", bucket, 0, <<>>), QLine("range", start, stop, <<>>)>>
    \o (IF box_filters # <<>> THEN <<QLine("filter", 0, 0, box_filters)>> ELSE <<>>)
    \o (IF sensor_filters # <<>> THEN <<QLine("filter", 0, 0, sensor_filters)>> ELSE <<>>)
    \o <<QLine("drop", 0, 0, <<>>), QLine("pivot", 0, 0, <<>>)>>

----------------------------------------------------------------------------
(* Database responses (query_data_frame).  The client concatenates         *)
(* consecutive Flux tables of one schema into one frame, the "table"       *)
(* column telling them apart; it returns the frame itself when there is    *)
(* one, a list of frames when there are several, and an empty frame when   *)
(* nothing matched.                                                        *)

Boxes == {<<"a">>, <<"a", "_", "b">>}
Ids   == {<<"c">>, <<"b", "_", "c">>}

BaseColumns == <<"result", "table", "_time", "_measurement", "id">>

\* schema of the j-th frame of a response: consecutive frames differ
FrameColumns(j) == BaseColumns \o <<IF j % 2 = 1 THEN "p" ELSE "w">>

\* frame number of Flux table i when a new frame starts after the tables in cuts
FrameOf(i, cuts) == 1 + Cardinality({c \in cuts : c < i})

Response(k, box, sid, cuts) ==
    IF k = 0 THEN [is_list |-> FALSE, frames |-> <<Frame(<<>>, <<>>)>>]
    ELSE
        LET n == 1 + Cardinality(cuts)
            tablesOf(j) == {i \in 1..k : FrameOf(i, cuts) = j}
            first(j) == CHOOSE i \in tablesOf(j) : \A h \in tablesOf(j) : i <= h
            frame(j) == Frame(FrameColumns(j),
                              [r \in 1..Cardinality(tablesOf(j)) |->
                                  Row(first(j) + r - 2, box[first(j) + r - 1],
                                      sid[first(j) + r - 1], 0)])
        IN  [is_list |-> n > 1, frames |-> [j \in 1..n |-> frame(j)]]

Responses ==
    {Response(k, box, sid, cuts) :
        <<k, box, sid, cuts>> \in
            UNION {{<<k, b, s, c>> : b \in [1..k -> Boxes], s \in [1..k -> Ids],
                                     c \in SUBSET (1..(k - 1))} : k \in 0..MaxTables}}

----------------------------------------------------------------------------
(* Result splitting (main, lines 147-152) *)

TableIndices(f) == {f.rows[r].table : r \in 1..Len(f.rows)}

RECURSIVE SortedSeq(_)
SortedSeq(S) ==
    IF S = {} THEN <<>>
    ELSE LET m == CHOOSE x \in S : \A y \in S : x <= y
         IN  <<m>> \o SortedSeq(S \ {m})

\* [r for _, r in f.groupby('table')]: one frame per table index, ascending
GroupByTable(f) ==
    LET keys == SortedSeq(TableIndices(f))
    IN  [g \in 1..Len(keys) |->
            Frame(f.columns, SelectSeq(f.rows, LAMBDA r : r.table = keys[g]))]

RECURSIVE Flatten(_)
Flatten(ss) == IF Len(ss) = 0 THEN <<>> ELSE Head(ss) \o Flatten(Tail(ss))

SplitResult(result) ==
    IF result.is_list
    THEN Flatten([j \in 1..Len(result.frames) |-> GroupByTable(result.frames[j])])
    ELSE <<result.frames[1]>>

----------------------------------------------------------------------------
(* Normalizing every table (main, lines 155-159) *)

EmptyMap == [x \in {} |-> {}]

\* d[key] = value
Put(d, key, value) ==
    [x \in DOMAIN d \cup {key} |-> IF x = key THEN value ELSE d[x]]

RECURSIVE ProcessAll(_, _)
\* the dictionary after the loop body ran for the tables of list, in order
ProcessAll(list, acc) ==
    IF Len(list) = 0 THEN acc
    ELSE LET res == processInfluxDF(Head(list))
         IN  ProcessAll(Tail(list),
                        Put(acc, res.id_str, [columns |-> res.columns, rows |-> res.rows]))

AnyRaises(list) == \E k \in 1..Len(list) : processInfluxDF(list[k]).raised

----------------------------------------------------------------------------
(* Export (main, lines 165-182) *)

ExtCsv    == <<".", "c", "s", "v">>
ExtMat    == <<".", "m", "a", "t">>
ExtPickle == <<".", "p", "i", "c", "k", "l", "e">>

\* os.path.splitext for a path without directory separators: the extension
\* starts at the last dot, unless only dots precede it
SplitExt(path) ==
    LET dots == {i \in 1..Len(path) : path[i] = "."}
        last == IF dots = {} THEN 0 ELSE CHOOSE i \in dots : \A j \in dots : j <= i
    IN  IF last > 0 /\ \E j \in 1..(last - 1) : path[j] # "."
        THEN <<SubSeq(path, 1, last - 1), SubSeq(path, last, Len(path))>>
        ELSE <<path, <<>>>>

\* an export that falls back to the pickle format for any other extension
Export_pickleByDefault(disk, output_file, tables) ==
    LET output_name == SplitExt(output_file)[1]
        output_type == SplitExt(output_file)[2]
    IN  IF output_type \in {ExtCsv, ExtMat} THEN disk
        ELSE Put(disk, output_name \o ExtPickle, [format |-> "pickle", data |-> tables])

\* the files on disk after the export step
Export(disk, output_file, tables) ==
    LET output_name == SplitExt(output_file)[1]
        output_type == SplitExt(output_file)[2]
        output_filename(cur_name) == output_name \o <<"_">> \o cur_name \o ExtCsv
        written == {output_filename(cur_name) : cur_name \in DOMAIN tables}
        source(name) == CHOOSE cur_name \in DOMAIN tables : output_filename(cur_name) = name
    IN  IF output_type = ExtCsv
        THEN [name \in DOMAIN disk \cup written |->
                IF name \in written
                THEN [format |-> "csv", data |-> tables[source(name)]]
                ELSE disk[name]]
        ELSE IF output_type = ExtMat
        THEN Put(disk, output_name \o ExtMat, [format |-> "mat", data |-> tables])
        ELSE IF output_type = ExtPickle
        THEN Put(disk, output_name \o ExtPickle, [format |-> "pickle", data |-> tables])
        ELSE disk

----------------------------------------------------------------------------
(* Values of the variables a specification does not use *)

Running == -1

NoResult == [is_list |-> FALSE, frames |-> <<>>]
NoNorm == [raised |-> FALSE, id_str |-> <<>>, columns |-> <<>>, rows |-> <<>>,
           warned |-> FALSE]
NoArgs == [start_time |-> 0, end_time |-> 0, output_file |-> <<>>,
           box_id |-> None, sensor_id |-> None, bucket |-> "parosbox",
           input_zone |-> "Etc/UTC"]
Blank == [idb_url |-> <<>>, idb_org |-> <<>>, idb_token |-> <<>>]

FilterIdle == col_name = "" /\ in_str = None /\ flux_line = <<>>
NormIdle   == df = Frame(<<>>, <<>>) /\ norm_out = NoNorm
QueryIdle  ==
    /\ args = NoArgs /\ creds_present = FALSE
    /\ start_time = 0 /\ end_time = 0
    /\ idb_query = <<>> /\ sent = <<>>
    /\ idb_result = NoResult /\ dfs_list = <<>>
    /\ out_df = EmptyMap /\ files = EmptyMap /\ exit_code = Running
SetupIdle  == creds_file = <<>> /\ cur = Blank /\ entered = Blank /\ typed = Blank

----------------------------------------------------------------------------
(* createFluxFilters on its own *)

Chars == {"a", "b", ","}

FilterInit ==
    /\ pc = "createFluxFilters"
    /\ col_name \in {"_measurement", "id"}
    /\ in_str \in {None} \cup SeqsUpTo(Chars, MaxLen)
    /\ flux_line = <<>>
    /\ NormIdle /\ QueryIdle /\ SetupIdle

FilterReturn ==
    /\ pc = "createFluxFilters"
    /\ flux_line' = createFluxFilters(col_name, in_str)
    /\ pc' = "returned"
    /\ UNCHANGED <<col_name, in_str, normVars, queryVars, setupVars>>

FilterNext == FilterReturn

SpecFilters == FilterInit /\ [][FilterNext]_vars

----------------------------------------------------------------------------
(* processInfluxDF on its own *)

OptionalColumns == {"baro_time", "err", "p"}
ErrValues == {0, 1}

\* the arrangements of the elements of S
Perms(S) ==
    {f \in [1..Cardinality(S) -> S] : \A i, j \in 1..Cardinality(S) : f[i] = f[j] => i = j}

NormInputs ==
    {Frame(<<"result", "table">> \o rest, [r \in 1..n |-> Row(0, <<"a">>, <<"c">>, e[r])]) :
        <<rest, n, e>> \in
            UNION {{<<c, k, v>> : c \in UNION {Perms({"_time", "_measurement", "id"} \cup opt) :
                                                opt \in SUBSET OptionalColumns},
                                  v \in [1..k -> ErrValues]} : k \in 1..MaxRows}}

NormInit ==
    /\ pc = "processInfluxDF"
    /\ df \in NormInputs
    /\ norm_out = NoNorm
    /\ FilterIdle /\ QueryIdle /\ SetupIdle

NormReturn ==
    /\ pc = "processInfluxDF"
    /\ norm_out' = processInfluxDF(df)
    /\ pc' = "normalized"
    /\ UNCHANGED <<df, filterVars, queryVars, setupVars>>

NormNext == NormReturn

SpecNorm == NormInit /\ [][NormNext]_vars

----------------------------------------------------------------------------
(* get-paros-data.py: one run of main *)

Times == 0..MaxTime

BoxIdArgs    == {None, <<>>, <<"a">>, <<"a", ",", "a", "_", "b">>}
SensorIdArgs == {None, <<>>, <<"c">>}
OutputFiles  == {<<"o", ".", "c", "s", "v">>, <<"o", ".", "m", "a", "t">>,
                 <<"o", ".", "p", "i", "c", "k", "l", "e">>,
                 <<"o", ".", "t", "x", "t">>, <<"o">>, <<".", "c", "s", "v">>}

\* cliArguments(): the namespace argparse returns
cliArguments ==
    [start_time : Times, end_time : Times, output_file : OutputFiles,
     box_id : BoxIdArgs, sensor_id : SensorIdArgs, bucket : {"parosbox"},
     input_zone : Zones]

\* a loader that reports the missing file and returns all the same
loadInfluxClient_noExit(isfile) == [exits |-> FALSE, status |-> Running]

\* loadInfluxClient(pickle_path): returns the client or exits with status 1
loadInfluxClient(isfile) ==
    IF isfile THEN [exits |-> FALSE, status |-> Running]
    ELSE [exits |-> TRUE, status |-> 1]

Init ==
    /\ pc = "main"
    /\ args \in cliArguments
    /\ creds_present \in BOOLEAN
    /\ start_time = 0 /\ end_time = 0
    /\ idb_query = <<>> /\ sent = <<>>
    /\ idb_result = NoResult /\ dfs_list = <<>>
    /\ out_df = EmptyMap /\ files = EmptyMap /\ exit_code = Running
    /\ FilterIdle /\ NormIdle /\ SetupIdle

LoadClient ==
    /\ pc = "main"
    /\ LET r == loadInfluxClient(creds_present)
       IN  /\ pc' = IF r.exits THEN "exited" ELSE "loaded"
           /\ exit_code' = r.status
    /\ UNCHANGED <<args, creds_present, start_time, end_time, idb_query, sent,
                   idb_result, dfs_list, out_df, files>>
    /\ UNCHANGED <<filterVars, normVars, setupVars>>

MakeQuery ==
    /\ pc = "loaded"
    /\ start_time' = ToUTC(args.input_zone, args.start_time)
    /\ end_time' = ToUTC(args.input_zone, args.end_time)
    /\ idb_query' = BuildQuery(args.bucket, start_time', end_time',
                               createFluxFilters("_measurement", args.box_id),
                               createFluxFilters("id", args.sensor_id))
    /\ pc' = "built"
    /\ UNCHANGED <<args, creds_present, sent, idb_result, dfs_list, out_df,
                   files, exit_code>>
    /\ UNCHANGED <<filterVars, normVars, setupVars>>

RunQuery ==
    /\ pc = "built"
    /\ sent' = Append(sent, idb_query)
    /\ \E response \in Responses : idb_result' = response
    /\ pc' = "queried"
    /\ UNCHANGED <<args, creds_present, start_time, end_time, idb_query,
                   dfs_list, out_df, files, exit_code>>
    /\ UNCHANGED <<filterVars, normVars, setupVars>>

SplitTables ==
    /\ pc = "queried"
    /\ dfs_list' = SplitResult(idb_result)
    /\ pc' = "split"
    /\ UNCHANGED <<args, creds_present, start_time, end_time, idb_query, sent,
                   idb_result, out_df, files, exit_code>>
    /\ UNCHANGED <<filterVars, normVars, setupVars>>

Process ==
    /\ pc = "split"
    /\ IF AnyRaises(dfs_list)
       THEN pc' = "raised" /\ exit_code' = 1 /\ out_df' = out_df
       ELSE pc' = "processed" /\ exit_code' = exit_code
            /\ out_df' = ProcessAll(dfs_list, EmptyMap)
    /\ UNCHANGED <<args, creds_present, start_time, end_time, idb_query, sent,
                   idb_result, dfs_list, files>>
    /\ UNCHANGED <<filterVars, normVars, setupVars>>

ExportFiles ==
    /\ pc = "processed"
    /\ files' = Export(files, args.output_file, out_df)
    /\ pc' = "done"
    /\ exit_code' = 0
    /\ UNCHANGED <<args, creds_present, start_time, end_time, idb_query, sent,
                   idb_result, dfs_list, out_df>>
    /\ UNCHANGED <<filterVars, normVars, setupVars>>

Next == LoadClient \/ MakeQuery \/ RunQuery \/ SplitTables \/ Process \/ ExportFiles

Spec == Init /\ [][Next]_vars

----------------------------------------------------------------------------
(* influxdb-setup.py: runs of main, one after another, on one working      *)
(* directory.  creds_file is <<>> while influx-creds.pickle does not       *)
(* exist and <<record>> once it does.                                      *)

Inputs == {<<>>, <<"x">>, <<"y">>}

\* a prompt that keeps the stored value whenever there is one
PromptOnce_prefersStored(cur_value, line) ==
    IF cur_value # <<>> THEN cur_value ELSE line

\* one pass of a prompt loop: the value of the field after the line is read
PromptOnce(cur_value, line) ==
    IF line # <<>> THEN line
    ELSE IF cur_value = <<>> THEN <<>> ELSE cur_value

SetupInit ==
    /\ pc = "setup"
    /\ creds_file = <<>>
    /\ cur = Blank /\ entered = Blank /\ typed = Blank
    /\ FilterIdle /\ NormIdle /\ QueryIdle

ReadExisting ==
    /\ pc = "setup"
    /\ cur' = IF creds_file # <<>> THEN creds_file[1] ELSE Blank
    /\ pc' = "idb_url"
    /\ UNCHANGED <<creds_file, entered, typed, filterVars, normVars, queryVars>>

Prompt(field, after) ==
    /\ pc = field
    /\ \E line \in Inputs :
        /\ typed' = [typed EXCEPT ![field] = line]
        /\ entered' = [entered EXCEPT ![field] = PromptOnce(cur[field], line)]
        /\ pc' = IF entered'[field] = <<>> THEN field ELSE after
    /\ UNCHANGED <<creds_file, cur, filterVars, normVars, queryVars>>

PromptUrl   == Prompt("idb_url", "idb_org")
PromptOrg   == Prompt("idb_org", "idb_token")
PromptToken == Prompt("idb_token", "write")

Save ==
    /\ pc = "write"
    /\ creds_file' = <<[idb_url |-> entered.idb_url, idb_org |-> entered.idb_org,
                        idb_token |-> entered.idb_token]>>
    /\ pc' = "saved"
    /\ UNCHANGED <<cur, entered, typed, filterVars, normVars, queryVars>>

RunAgain ==
    /\ pc = "saved"
    /\ cur' = Blank /\ entered' = Blank /\ typed' = Blank
    /\ pc' = "setup"
    /\ UNCHANGED <<creds_file, filterVars, normVars, queryVars>>

SetupNext == ReadExisting \/ PromptUrl \/ PromptOrg \/ PromptToken \/ Save \/ RunAgain

SpecSetup == SetupInit /\ [][SetupNext]_vars

----------------------------------------------------------------------------
(* Properties *)

CountOf(s, c) == Cardinality({i \in 1..Len(s) : s[i] = c})

RECURSIVE CommaJoined(_)
\* the values written one after another with a comma between them
CommaJoined(values) ==
    IF Len(values) = 0 THEN <<>>
    ELSE IF Len(values) = 1 THEN values[1]
    ELSE values[1] \o <<",">> \o CommaJoined(Tail(values))

\* C1: for a non-empty filter string with n comma-separated values the clause
\* is the opening, n equality predicates on the given column, one per value
\* and in input order, with " or " between consecutive ones (n - 1 joiners),
\* and the closing.
C1_OnePredicatePerValue ==
    (pc = "returned" /\ in_str # None /\ in_str # <<>>) =>
        LET n == CountOf(in_str, ",") + 1
            values == [k \in 1..n |-> flux_line[2 * k].val]
        IN  /\ Len(flux_line) = 2 * n + 1
            /\ flux_line[1] = FilterOpen
            /\ flux_line[2 * n + 1] = FilterClose
            /\ \A k \in 1..n :
                /\ flux_line[2 * k].kind = "predicate"
                /\ flux_line[2 * k].col = col_name
                /\ "," \notin Range(flux_line[2 * k].val)
            /\ \A k \in 1..(n - 1) : flux_line[2 * k + 1] = OrJoiner
            /\ CommaJoined(values) = in_str

C1_Witness ==
    /\ pc = "returned"
    /\ in_str = <<"a", ",", "b">>
    /\ Len(flux_line) = 5
    /\ flux_line[4] = Predicate(col_name, <<"b">>)

FilterLinesOn(query, col) ==
    {k \in 1..Len(query) :
        /\ query[k].kind = "filter"
        /\ \E t \in 1..Len(query[k].clause) : query[k].clause[t].col = col}

\* C2: when the box-id (sensor-id) input is None or the empty string,
\* createFluxFilters returns the empty string and the query built by main
\* has no filter stage on _measurement (id).
C2_OmittedWhenAbsentOrEmpty ==
    pc = "built" =>
        /\ args.box_id \in {None, <<>>} =>
            /\ createFluxFilters("_measurement", args.box_id) = <<>>
            /\ FilterLinesOn(idb_query, "_measurement") = {}
        /\ args.sensor_id \in {None, <<>>} =>
            /\ createFluxFilters("id", args.sensor_id) = <<>>
            /\ FilterLinesOn(idb_query, "id") = {}

ErrValuesOf(d) == {d.rows[r].err : r \in 1..Len(d.rows)}

\* C3: for a table with an "err" column the warning is printed exactly when
\* the column holds more than one distinct value.
C3_WarnsIffSeveralErrValues ==
    (pc = "normalized" /\ "err" \in Range(df.columns)) =>
        (norm_out.warned <=> Cardinality(ErrValuesOf(df)) > 1)

PairsOf(d) == {<<d.rows[r].measurement, d.rows[r].id>> : r \in 1..Len(d.rows)}

ResponseRows(result) ==
    UNION {Range(result.frames[j].rows) : j \in 1..Len(result.frames)}

\* C4: a response with rows of k distinct table indices is split into k
\* tables, one per index, each holding one (measurement, id) combination,
\* for a single-table response as for a list.
C4_OneTablePerIndex ==
    (pc = "split" /\ ResponseRows(idb_result) # {}) =>
        /\ Len(dfs_list) = Cardinality({r.table : r \in ResponseRows(idb_result)})
        /\ \A k \in 1..Len(dfs_list) :
            /\ Cardinality(TableIndices(dfs_list[k])) = 1
            /\ Cardinality(PairsOf(dfs_list[k])) = 1

CsvName(base, pair) == base \o <<"_">> \o pair[1] \o <<"_">> \o pair[2] \o ExtCsv

\* C5: with a .csv output path a response with tables for n distinct
\* (measurement, id) pairs leaves n files, one per pair, named
\* {base}_{measurement}_{id}.csv and holding rows of that pair only.
C5_OneCsvFilePerPair ==
    (pc = "done" /\ SplitExt(args.output_file)[2] = ExtCsv) =>
        LET base == SplitExt(args.output_file)[1]
            pairs == {<<r.measurement, r.id>> : r \in ResponseRows(idb_result)}
        IN  /\ Cardinality(DOMAIN files) = Cardinality(pairs)
            /\ \A p \in pairs :
                /\ CsvName(base, p) \in DOMAIN files
                /\ PairsOf(files[CsvName(base, p)].data) = {p}

\* C6: when the credentials path names no file the run exits with status 1
\* straight from loading: no query is built or sent, no table is processed
\* and no file is written, whatever the other arguments.
C6_MissingCredsExitsFirst ==
    ~creds_present =>
        /\ pc \in {"main", "exited"}
        /\ pc = "exited" => exit_code = 1
        /\ pc = "main" => exit_code = Running
        /\ idb_query = <<>> /\ sent = <<>>
        /\ dfs_list = <<>> /\ DOMAIN out_df = {} /\ DOMAIN files = {}

C6_Witness ==
    /\ pc = "exited" /\ ~creds_present /\ exit_code = 1
    /\ args.box_id = <<"a">> /\ args.output_file = <<"o", ".", "c", "s", "v">>

\* C7: in every query sent to the database the range start is at most the
\* range stop.
C7_StartNotAfterStop ==
    \A k \in 1..Len(sent) : sent[k][2].a <= sent[k][2].b

RemovedColumns == {"result", "table", "_measurement", "id", "baro_time", "err"}

\* C8: the normalized table has none of the columns result, table,
\* _measurement, id, baro_time, err; its columns are the other input columns
\* in input order, with _time named time.
C8_ColumnsOfNormalizedTable ==
    pc = "normalized" =>
        LET kept == SelectSeq(df.columns, LAMBDA c : c \notin RemovedColumns)
        IN  /\ ~norm_out.raised
            /\ Range(norm_out.columns) \cap RemovedColumns = {}
            /\ "_time" \notin Range(norm_out.columns)
            /\ Len(norm_out.columns) = Len(kept)
            /\ \A k \in 1..Len(kept) :
                norm_out.columns[k] = IF kept[k] = "_time" THEN "time" ELSE kept[k]

C8_Witness ==
    /\ pc = "normalized"
    /\ {"err", "baro_time", "p"} \subseteq Range(df.columns)
    /\ Cardinality(ErrValuesOf(df)) = 1
    /\ Len(norm_out.columns) = 2
    /\ Range(norm_out.columns) = {"time", "p"}

Fields == {"idb_url", "idb_org", "idb_token"}

\* the prompts that are over when the script is at position p
Answered(p) ==
    CASE p = "idb_org" -> {"idb_url"}
      [] p = "idb_token" -> {"idb_url", "idb_org"}
      [] p \in {"write", "saved"} -> Fields
      [] OTHER -> {}

\* C9: a prompt is left only with a non-empty line or an existing stored
\* value; the stored record never has an empty field; the record written is
\* exactly, per field, the typed line when non-empty and the previously
\* stored value otherwise.
C9_StoredRecord ==
    /\ \A f \in Answered(pc) : ~(typed[f] = <<>> /\ cur[f] = <<>>)
    /\ creds_file # <<>> => \A f \in Fields : creds_file[1][f] # <<>>
    /\ pc = "saved" =>
        creds_file[1] = [f \in Fields |-> IF typed[f] # <<>> THEN typed[f] ELSE cur[f]]

C9_Witness ==
    /\ pc = "saved"
    /\ cur = [idb_url |-> <<"x">>, idb_org |-> <<"x">>, idb_token |-> <<"x">>]
    /\ typed = [idb_url |-> <<>>, idb_org |-> <<"y">>, idb_token |-> <<>>]
    /\ creds_file[1] = [idb_url |-> <<"x">>, idb_org |-> <<"y">>, idb_token |-> <<"x">>]

KnownExtensions == {ExtCsv, ExtMat, ExtPickle}

\* C10: with an output extension other than .csv, .mat and .pickle the export
\* step ends the run normally and leaves the files on disk as they were.
C10_UnknownExtensionNoOp ==
    [][(pc = "processed" /\ SplitExt(args.output_file)[2] \notin KnownExtensions)
        => (pc' = "done" /\ exit_code' = 0 /\ files' = files)]_vars

C10_Witness ==
    /\ pc = "done" /\ exit_code = 0
    /\ args.output_file = <<".", "c", "s", "v">>
    /\ DOMAIN out_df # {}
    /\ DOMAIN files = {}

====
